---- MODULE Spec2Model ----
(***************************************************************************)
(* Model of cast-manager: the EventEmitter, the CastManager session        *)
(* adapter (CastManager.ts) and the Google Cast sender SDK it talks to.    *)
(*                                                                         *)
(* The SDK is the environment.  It owns one CastContext singleton with a   *)
(* connectivity state, a session lifecycle state and a current session,    *)
(* fires a native event at every change and invokes every listener that    *)
(* was registered with addEventListener / addMessageListener.              *)
(*                                                                         *)
(* JavaScript is single threaded: every action below is one synchronous    *)
(* run of code between two suspension points.                              *)
(***************************************************************************)
EXTENDS Integers, Sequences, FiniteSets, Bags, TLC

\* ------------------------------------------------------------------ bounds
MaxSubs == 1        \* registrations a CastManager holds at one time
MaxRegistered == 3  \* registrations a bare EventEmitter holds at one time
MaxInitRuns == 2    \* initialize() calls that get past the initialized check
MaxSessions == 1    \* session objects the SDK creates
MaxActivations == 2  \* runs of the effect of one useCastManager
MaxInstalled == 2   \* message listeners on one session when the SDK resumes it

\* while (!window.cast?.framework && attempts < 20)
MaxAttempts == 20

\* --------------------------------------------------------------- constants
CastStates == {"NO_DEVICES_AVAILABLE", "NOT_CONNECTED", "CONNECTING", "CONNECTED"}

SessionStates ==
  {"NO_SESSION", "SESSION_STARTING", "SESSION_STARTED", "SESSION_START_FAILED",
   "SESSION_ENDING", "SESSION_ENDED", "SESSION_RESUMED"}

CAST_STATE_CHANGED == "castStateChanged"
SESSION_STATE_CHANGED == "sessionStateChanged"
MESSAGE_RECEIVED == "messageReceived"

CastEventType == {CAST_STATE_CHANGED, SESSION_STATE_CHANGED, MESSAGE_RECEIVED}

\* The application's listener functions: one that returns and one that throws.
Listeners == {"plain", "faulty"}
Throws(l) == l = "faulty"

\* The arrow functions CastService.initialize registers on its manager.
ServiceListener == "service"

\* The three handlers the k-th run of the effect of useCastManager defines.
HookListener(k) ==
  CASE k = 1 -> "hook1" [] k = 2 -> "hook2" [] k = 3 -> "hook3" [] OTHER -> "hook4"
HookListeners == {"hook1", "hook2", "hook3", "hook4"}

\* Who called initialize() on the hook's manager: the effect, or the
\* initialize function the hook returns.
HookOrigins == {"auto", "manual"}

\* The native message payloads: two strings and one already-decoded object.
RawMessages == {"{\"action\":\"play\"}", "{\"action\":", "[object]"}
IsString(p) == p # "[object]"

VARIABLES
  \* EventEmitter
  listeners,        \* event name -> insertion-ordered set of listeners
  \* CastManager
  context,          \* TRUE when this.context holds the CastContext
  session,          \* this.session: 0 when null/undefined, else a session id
  initialized,      \* this.initialized
  nFast,            \* initialize() calls suspended on the loaded-framework path
  nBoot,            \* initialize() calls suspended in the bootstrap sequence
  \* the SDK
  frameworkLoaded,  \* window.cast.framework exists
  sdkCastState,     \* CastContext.getCastState()
  sdkSessionState,  \* CastContext.getSessionState()
  sdkSession,       \* CastContext.getCurrentSession(): 0 when null
  sdkCount,         \* session objects created so far
  ctxCast,          \* CAST_STATE_CHANGED listeners registered on the context
  ctxSess,          \* SESSION_STATE_CHANGED listeners registered on the context
  msgListeners,     \* session id -> message listeners added on the namespace
  \* history
  lastOp,           \* the operation that produced the current state
  initRuns,         \* initialize() calls that got past the initialized check
  initialPubs,      \* initial connectivity events published by resolved calls
  lastCastEvent,    \* value of the last delivered connectivity event
  handleSrc,        \* the last step that determined the session handle
  lifeLive,         \* last STARTED/RESUMED delivered, no ENDED/NO_SESSION since
  startedSeen,      \* a STARTED/RESUMED event has been delivered
  everResolved,     \* an initialize() call has resolved
  resolvedSinceDestroy, \* ... and destroy() has not been called since
  everDestroyed,    \* destroy() has been called
  malformedOn,      \* sessions on which a malformed message was delivered
  unsubbed,         \* event name -> listeners removed by off and not added since
  dupSubs,          \* event name -> listeners subscribed again while registered,
                    \* until they are subscribed anew or cleared with the event
  \* the bootstrap sequence in detail: where the nBoot suspended calls are.
  \* A call counted in none of the three awaits the load of its script.
  bootApi,          \* calls awaiting window.__onGCastApiAvailable, resolver installed
  bootOrphan,       \* calls awaiting it whose resolver a later call has replaced
  bootPoll,         \* bag of attempts: calls in waitForCastFramework awaiting the timer
  scriptLoaded,     \* a sender script has loaded: the SDK may call the global
  bootHistory,      \* "failed" once a bootstrap sequence has failed, "retried"
                    \* once initialize() was then called with no call in flight
  \* CastService.  The CastManager variables above are those of the manager
  \* this.castManager refers to; a manager it no longer refers to is an orphan.
  svcManager,       \* this.castManager: 0 when null, else the manager's number
  svcInitialized,   \* this.initialized
  svcAwait,         \* initialize(config) calls awaiting this.castManager.initialize()
  orphans,          \* calls awaiting an orphan's initialize(), by what it is doing
  streams,          \* the values of the five BehaviorSubjects
  svcConstructed,   \* history: CastManagers constructed
  svcWired,         \* history: event name -> listeners the service registered
  svcDestroyed,     \* ngOnDestroy() has run: the five subjects are completed
  \* useCastManager.  In its scenario the CastManager variables are those of
  \* the manager castManagerRef.current refers to.
  hook,             \* the ref, the effect, the options and the pending calls
  cells             \* the values of the five useState cells

emitterVars == <<listeners>>
managerVars == <<context, session, initialized, nFast, nBoot>>
sdkVars == <<frameworkLoaded, sdkCastState, sdkSessionState, sdkSession,
             sdkCount, ctxCast, ctxSess, msgListeners>>
histVars == <<lastOp, initRuns, initialPubs, lastCastEvent, handleSrc, lifeLive,
              startedSeen, everResolved, resolvedSinceDestroy, everDestroyed,
              malformedOn, unsubbed>>
\* What the bare dispatcher scenario records on top of histVars.
emitterHist == <<dupSubs>>
\* The variables the CastManager scenarios leave alone.
bootVars == <<bootApi, bootOrphan, bootPoll, scriptLoaded, bootHistory>>
svcVars == <<svcManager, svcInitialized, svcAwait, orphans, streams,
             svcConstructed, svcWired, svcDestroyed>>
hookVars == <<hook, cells>>
projVars == <<svcVars, hookVars>>
extVars == <<emitterHist, bootVars, projVars>>
vars == <<emitterVars, managerVars, sdkVars, histVars, extVars>>

\* ------------------------------------------------------------ EventEmitter
InSeq(x, s) == \E i \in DOMAIN s : s[i] = x

on_append(ls, e, l) == [ls EXCEPT ![e] = Append(@, l)]

\* on(event, listener): Set.add keeps insertion order and ignores duplicates.
\* A missing map key and an empty set are indistinguishable to emit/off.
on(ls, e, l) ==
  [ls EXCEPT ![e] = IF InSeq(l, @) THEN @ ELSE Append(@, l)]

off_noop(ls, e, l) == ls

\* off(event, listener): Set.delete.
off(ls, e, l) ==
  [ls EXCEPT ![e] = SelectSeq(@, LAMBDA x : x # l)]

\* Set.forEach((listener) => listener(data)): listeners run in insertion
\* order; the first one that throws ends the iteration and the exception
\* leaves emit.  Result: the listeners invoked and whether emit threw.
RECURSIVE forEach(_)
forEach(s) ==
  IF s = <<>> THEN [to |-> <<>>, threw |-> FALSE]
  ELSE IF Throws(Head(s)) THEN [to |-> <<Head(s)>>, threw |-> TRUE]
  ELSE LET r == forEach(Tail(s))
       IN [to |-> <<Head(s)>> \o r.to, threw |-> r.threw]

emit(ls, e) == forEach(ls[e])

removeAllListeners_named(ls, e) ==
  IF e # "" THEN [ls EXCEPT ![e] = <<>>] ELSE ls

\* removeAllListeners(event?): "" stands for the omitted (falsy) argument.
removeAllListeners(ls, e) ==
  IF e # "" THEN [ls EXCEPT ![e] = <<>>] ELSE [x \in DOMAIN ls |-> <<>>]

NumSubs == Len(listeners[CAST_STATE_CHANGED]) + Len(listeners[SESSION_STATE_CHANGED])
           + Len(listeners[MESSAGE_RECEIVED])

\* ----------------------------------------------------------------- history
\* One publication: the event name, its payload and the listeners invoked.
Pub(e, val, sess, r) == [ev |-> e, val |-> val, sess |-> sess, to |-> r.to]

\* What an operation found when it started: the held handle, the context,
\* whether an initialize() call had resolved since construction or the last
\* destroy(), and whether the operation before it was destroy().
Pre ==
  [session |-> session, context |-> context, resolved |-> resolvedSinceDestroy,
   afterDestroy |-> lastOp.op = "destroy", initialized |-> initialized]
NoPre ==
  [session |-> 0, context |-> FALSE, resolved |-> FALSE, afterDestroy |-> FALSE,
   initialized |-> FALSE]

Op(name, arg, outcome, calls, pubs, fired, pre) ==
  [op |-> name, arg |-> arg, outcome |-> outcome, calls |-> calls,
   pubs |-> pubs, fired |-> fired, pre |-> pre]

Init ==
  /\ listeners = [e \in CastEventType |-> <<>>]
  /\ context = FALSE
  /\ session = 0
  /\ initialized = FALSE
  /\ nFast = 0
  /\ nBoot = 0
  /\ frameworkLoaded \in BOOLEAN
  /\ sdkCastState = "NO_DEVICES_AVAILABLE"
  /\ sdkSessionState = "NO_SESSION"
  /\ sdkSession = 0
  /\ sdkCount = 0
  /\ ctxCast = 0
  /\ ctxSess = 0
  /\ msgListeners = [s \in 1..MaxSessions |-> 0]
  /\ initRuns = 0
  /\ initialPubs = 0
  /\ lastCastEvent = "none"
  /\ handleSrc = "none"
  /\ lifeLive = FALSE
  /\ startedSeen = FALSE
  /\ everResolved = FALSE
  /\ resolvedSinceDestroy = FALSE
  /\ everDestroyed = FALSE
  /\ malformedOn = {}
  /\ unsubbed = [e \in CastEventType |-> {}]
  /\ dupSubs = [e \in CastEventType |-> {}]
  /\ bootApi = 0
  /\ bootOrphan = 0
  /\ bootPoll = EmptyBag
  /\ scriptLoaded = FALSE
  /\ bootHistory = "none"
  /\ svcManager = 0
  /\ svcInitialized = FALSE
  /\ svcAwait = 0
  /\ orphans = [fast |-> 0, boot |-> 0, resolved |-> 0, rejected |-> 0,
                ready |-> 0]
  /\ streams = [castState |-> "null", sessionState |-> "null",
                isConnected |-> FALSE, isInitialized |-> FALSE,
                lastMessage |-> "null"]
  /\ svcConstructed = 0
  /\ svcWired = [e \in CastEventType |-> 0]
  /\ svcDestroyed = FALSE
  /\ hook = [manager |-> 0, config |-> "", auto |-> FALSE, phase |-> "idle", runs |-> 0,
             pend |-> [o \in HookOrigins |-> [fast |-> 0, boot |-> 0]],
             then |-> [ok |-> 0, logged |-> 0, rejected |-> 0]]
  /\ cells = [castState |-> "null", sessionState |-> "null",
              isConnected |-> FALSE, isInitialized |-> FALSE,
              lastMessage |-> "null"]
  /\ lastOp = Op("new", "", "Returned", {}, <<>>, 0, NoPre)

\* ------------------------------------------------- subscribe / unsubscribe
\* onCastStateChanged / onSessionStateChanged / onMessageReceived
On(e, l) ==
  /\ InSeq(l, listeners[e]) \/ NumSubs < MaxSubs
  /\ listeners' = on(listeners, e, l)
  /\ lastOp' = Op("on", e, "Returned", {}, <<>>, 0, NoPre)
  /\ UNCHANGED <<managerVars, sdkVars, initRuns, initialPubs, lastCastEvent,
                 handleSrc, lifeLive, startedSeen, everResolved,
                 resolvedSinceDestroy, everDestroyed, malformedOn, unsubbed, extVars>>

\* offCastStateChanged / offSessionStateChanged / offMessageReceived
Off(e, l) ==
  /\ listeners' = off(listeners, e, l)
  /\ lastOp' = Op("off", e, "Returned", {}, <<>>, 0, NoPre)
  /\ UNCHANGED <<managerVars, sdkVars, initRuns, initialPubs, lastCastEvent,
                 handleSrc, lifeLive, startedSeen, everResolved,
                 resolvedSinceDestroy, everDestroyed, malformedOn, unsubbed, extVars>>

\* ------------------------------------------------------------------ the SDK
\* JSON.parse on the string payloads above: a value, or a SyntaxError.
JSONParse(text) ==
  CASE text = "{\"action\":\"play\"}" -> [ok |-> TRUE, value |-> "object{action:play}"]
    [] OTHER -> [ok |-> FALSE, value |-> "SyntaxError"]

LiveStates == {"SESSION_STARTED", "SESSION_RESUMED"}

\* The lifecycle states the SDK can move to from state s.
SdkNextSessionStates(s) ==
  CASE s = "NO_SESSION" -> {"SESSION_STARTING", "SESSION_RESUMED"}
    [] s = "SESSION_STARTING" -> {"SESSION_STARTED", "SESSION_START_FAILED"}
    [] s \in LiveStates -> {"SESSION_ENDING", "SESSION_ENDED"}
    [] s = "SESSION_ENDING" -> {"SESSION_ENDED"}
    [] OTHER -> {"SESSION_STARTING", "NO_SESSION"}

\* Microtasks pending in useCastManager: the .then/.catch of the effect and
\* the code of initialize after its await, for calls that have settled.
HookMicrotasks == hook.then.ok + hook.then.logged + hook.then.rejected

\* Microtasks pending in the CastService: orphans' calls about to resume, and
\* initialize(config) calls whose manager's initialize() has settled.
SvcMicrotasks ==
  orphans.fast + orphans.resolved + orphans.rejected
    + (IF svcAwait > 0 /\ nFast = 0 /\ nBoot = 0 THEN 1 ELSE 0)

\* Macrotasks (SDK callbacks, script events, timers) run only when no
\* microtask is pending: a call suspended on the already-resolved promise of
\* loadCastFramework resumes first.
MacrotaskMayRun == nFast = 0 /\ SvcMicrotasks = 0 /\ HookMicrotasks = 0

RECURSIVE Repeat(_, _)
Repeat(x, n) == IF n = 0 THEN <<>> ELSE <<x>> \o Repeat(x, n - 1)

\* How many of the k registered native listeners the SDK invokes when each of
\* them throws: all of them if it isolates listener failures, else the first.
Fired(k, threw, isolate) == IF k > 0 /\ threw /\ ~isolate THEN 1 ELSE k

\* ------------------------------------------------------------ projections
\* What the listeners of a projection do with the publications they are
\* invoked for.  CastService: castStateSubject.next(state);
\* sessionStateSubject.next(data.sessionState) and
\* isConnectedSubject.next(!!data.session); lastMessageSubject.next(message).
\* useCastManager: setCastState(event.castState); setSessionState(event.sessionState)
\* and setIsConnected(!!event.session); setLastMessage(event.message).
RECURSIVE Deliver(_, _, _)
Deliver(st, pubs, mine) ==
  IF pubs = <<>> THEN st
  ELSE LET p == Head(pubs)
           nxt == IF ~\E l \in mine : InSeq(l, p.to) THEN st
                  ELSE IF p.ev = CAST_STATE_CHANGED
                  THEN [st EXCEPT !.castState = p.val]
                  ELSE IF p.ev = SESSION_STATE_CHANGED
                  THEN [st EXCEPT !.sessionState = p.val,
                                  !.isConnected = p.sess # 0]
                  ELSE [st EXCEPT !.lastMessage = p.val]
       IN Deliver(nxt, Tail(pubs), mine)

\* What the managers the service no longer refers to publish to the service's
\* listeners registered on them when the SDK fires the event of op.  Such a
\* manager took the context's session when it registered its native
\* listeners and has followed every lifecycle event since: its handle is the
\* context's current session.
OrphanPubs(op, cur) ==
  IF orphans.ready = 0 THEN <<>>
  ELSE IF op.op = "nativeCastState"
  THEN <<Pub(CAST_STATE_CHANGED, op.arg, 0, [to |-> <<ServiceListener>>])>>
  ELSE IF op.op = "nativeSessionState"
  THEN <<Pub(SESSION_STATE_CHANGED, op.arg, cur, [to |-> <<ServiceListener>>])>>
  ELSE <<>>

\* The subjects after the step that produced lastOp'.  The native listeners
\* of the current manager and of the others run in the order they were
\* registered in, which the model does not keep: both orders.  When the
\* current manager's listener threw, the SDK may have stopped before the
\* others.
ServiceMirror ==
  LET own == lastOp'.pubs
      other == OrphanPubs(lastOp', sdkSession')
  IN streams' \in {Deliver(Deliver(streams, other, {ServiceListener}), own,
                           {ServiceListener}),
                   Deliver(Deliver(streams, own, {ServiceListener}), other,
                           {ServiceListener})}
                  \cup (IF lastOp'.outcome = "Threw"
                        THEN {Deliver(streams, own, {ServiceListener})}
                        ELSE {})

\* An initialize() call of the hook's manager has settled in this step: the
\* continuation the hook attached to it is queued.
HookSettles ==
  IF \/ hook.manager = 0
     \/ lastOp'.op \notin {"initializeBody", "initializeBoot"}
     \/ \A o \in HookOrigins : hook.pend[o].fast + hook.pend[o].boot = 0
  THEN hook' = hook
  ELSE LET stage == IF nFast' < nFast THEN "fast" ELSE "boot"
           into(o) == IF lastOp'.outcome = "Resolved" THEN "ok"
                      ELSE IF o = "auto" THEN "logged" ELSE "rejected"
       IN \E o \in HookOrigins :
            /\ hook.pend[o][stage] > 0
            /\ hook' = [hook EXCEPT !.pend[o][stage] = @ - 1,
                                    !.then[into(o)] = @ + 1]

\* The projections follow the step of the manager or of the SDK.
Mirrors ==
  /\ ServiceMirror
  /\ cells' = Deliver(cells, lastOp'.pubs, HookListeners)
  /\ HookSettles
  /\ UNCHANGED <<svcManager, svcInitialized, svcAwait, orphans, svcConstructed,
                 svcWired, svcDestroyed>>

\* ---------------------------------------------------------------- initialize
InitializeIsNoop_missing == FALSE

\* if (this.initialized) return;
InitializeIsNoop == initialized

InitializeCall ==
  IF InitializeIsNoop
  THEN /\ lastOp' = Op("initialize", "", "Resolved", {}, <<>>, 0, Pre)
       /\ everResolved' = TRUE
       /\ resolvedSinceDestroy' = TRUE
       /\ UNCHANGED <<emitterVars, managerVars, sdkVars, initRuns, initialPubs,
                      lastCastEvent, handleSrc, lifeLive, startedSeen,
                      everDestroyed, malformedOn, unsubbed, extVars>>
  ELSE /\ initRuns < MaxInitRuns
       /\ initRuns' = initRuns + 1
       \* loadCastFramework: return at once when window.cast.framework exists,
       \* else inject the script and wait
       /\ IF frameworkLoaded
          THEN nFast' = nFast + 1 /\ UNCHANGED nBoot
          ELSE nBoot' = nBoot + 1 /\ UNCHANGED nFast
       /\ bootHistory' = IF bootHistory = "failed" /\ nFast = 0 /\ nBoot = 0
                         THEN "retried" ELSE bootHistory
       /\ lastOp' = Op("initialize", "", "Suspended", {}, <<>>, 0, Pre)
       /\ UNCHANGED <<emitterVars, context, session, initialized, sdkVars,
                      initialPubs, lastCastEvent, handleSrc, lifeLive,
                      startedSeen, everResolved, resolvedSinceDestroy,
                      everDestroyed, malformedOn, unsubbed, emitterHist,
                      bootApi, bootOrphan, bootPoll, scriptLoaded, projVars>>

\* The code of initialize() after await this.loadCastFramework().
InitializeBody ==
  LET r == emit(listeners, CAST_STATE_CHANGED)
      pub == Pub(CAST_STATE_CHANGED, sdkCastState, 0, r)
      calls == {"getInstance", "setOptions", "getCurrentSession", "getCastState"}
  IN /\ context' = TRUE
     /\ session' = sdkSession
     /\ handleSrc' = IF sdkSession # 0 THEN "capture+" ELSE "capture-"
     /\ IF r.threw
        THEN \* a listener threw out of emit: the call rejects here
             /\ lastOp' = Op("initializeBody", "", "Rejected", calls, <<pub>>, 0, Pre)
             /\ UNCHANGED <<initialized, ctxCast, ctxSess, msgListeners,
                            initialPubs, everResolved, resolvedSinceDestroy>>
        ELSE /\ initialPubs' = initialPubs + 1
             /\ ctxCast' = ctxCast + 1
             /\ ctxSess' = ctxSess + 1
             /\ msgListeners' = IF sdkSession # 0
                                THEN [msgListeners EXCEPT ![sdkSession] = @ + 1]
                                ELSE msgListeners
             /\ initialized' = TRUE
             /\ everResolved' = TRUE
             /\ resolvedSinceDestroy' = TRUE
             /\ lastOp' = Op("initializeBody", "", "Resolved",
                             calls \cup {"addEventListener"} \cup
                               (IF sdkSession # 0 THEN {"addMessageListener"} ELSE {}),
                             <<pub>>, 0, Pre)
     /\ UNCHANGED <<emitterVars, sdkCastState, sdkSessionState, sdkSession,
                    sdkCount, initRuns, lastCastEvent, lifeLive, startedSeen,
                    everDestroyed, malformedOn, unsubbed, emitterHist>>

\* A call that found the framework loaded resumes in the next microtask.
InitializeResumeFast ==
  /\ nFast > 0
  /\ nFast' = nFast - 1
  /\ InitializeBody
  /\ UNCHANGED <<nBoot, frameworkLoaded, bootVars>>
  /\ Mirrors

\* The script the bootstrap injected has run: window.cast.framework appears.
SdkLoad ==
  /\ MacrotaskMayRun
  /\ nBoot + orphans.boot > 0
  /\ ~frameworkLoaded
  /\ frameworkLoaded' = TRUE
  /\ lastOp' = Op("sdkLoad", "", "Returned", {}, <<>>, 0, NoPre)
  /\ UNCHANGED <<emitterVars, managerVars, sdkCastState, sdkSessionState,
                 sdkSession, sdkCount, ctxCast, ctxSess, msgListeners, initRuns,
                 initialPubs, lastCastEvent, handleSrc, lifeLive, startedSeen,
                 everResolved, resolvedSinceDestroy, everDestroyed, malformedOn,
                 unsubbed, extVars>>

\* The bootstrap of a suspended call succeeds: script loaded, global callback
\* invoked with true, waitForCastFramework saw window.cast.framework.
InitializeResumeBoot ==
  /\ MacrotaskMayRun
  /\ nBoot > 0
  /\ frameworkLoaded
  /\ nBoot' = nBoot - 1
  /\ InitializeBody
  /\ UNCHANGED <<nFast, frameworkLoaded, bootVars>>
  /\ Mirrors

InitializeBootFail_resets ==
  /\ MacrotaskMayRun
  /\ nBoot > 0
  /\ nBoot' = nBoot - 1
  /\ initialized' = FALSE
  /\ lastOp' = Op("initializeBoot", "", "Rejected", {}, <<>>, 0, NoPre)
  /\ UNCHANGED <<emitterVars, context, session, nFast, sdkVars,
                 initRuns, initialPubs, lastCastEvent, handleSrc, lifeLive,
                 startedSeen, everResolved, resolvedSinceDestroy, everDestroyed,
                 malformedOn, unsubbed, emitterHist, bootVars>>
  /\ Mirrors

\* The bootstrap of a suspended call fails: script load error, or the
\* framework object is still absent after the last poll.
InitializeBootFail ==
  /\ MacrotaskMayRun
  /\ nBoot > 0
  /\ nBoot' = nBoot - 1
  /\ lastOp' = Op("initializeBoot", "", "Rejected", {}, <<>>, 0, NoPre)
  /\ UNCHANGED <<emitterVars, context, session, initialized, nFast, sdkVars,
                 initRuns, initialPubs, lastCastEvent, handleSrc, lifeLive,
                 startedSeen, everResolved, resolvedSinceDestroy, everDestroyed,
                 malformedOn, unsubbed, emitterHist, bootVars>>
  /\ Mirrors

\* ------------------------------------------------- the bootstrap in detail
\* loadCastFramework() and waitForCastFramework() step by step.  The actions
\* above summarise them: InitializeResumeBoot is a sequence of these steps
\* that ends in success, InitializeBootFail one that ends in failure.
RECURSIVE SumPoll(_)
SumPoll(k) == IF k < 0 THEN 0 ELSE CopiesIn(k, bootPoll) + SumPoll(k - 1)

\* Calls awaiting the load (or the load error) of the script they injected.
BootAtScript == nBoot - (bootApi + bootOrphan + SumPoll(MaxAttempts))

waitForCastFramework_inclusive(attempts, fw) ==
  IF ~fw /\ attempts <= MaxAttempts THEN "delay"
  ELSE IF ~fw THEN "timeout" ELSE "ready"

\* One evaluation of the loop condition of waitForCastFramework and, when the
\* loop ends, of the check after it; fw is window.cast?.framework.
\*   while (!fw && attempts < 20) { await delay(100); attempts++ }
\*   if (!fw) throw new Error("Cast framework failed to initialize.")
waitForCastFramework(attempts, fw) ==
  IF ~fw /\ attempts < MaxAttempts THEN "delay"
  ELSE IF ~fw THEN "timeout" ELSE "ready"

BootFrame ==
  UNCHANGED <<emitterVars, context, session, initialized, nFast, sdkVars,
              initRuns, initialPubs, lastCastEvent, handleSrc, lifeLive,
              startedSeen, everResolved, resolvedSinceDestroy, everDestroyed,
              malformedOn, unsubbed, emitterHist, projVars>>

\* script.onload: the call goes on to install window.__onGCastApiAvailable,
\* replacing the resolver an earlier call installed, and awaits it.
ScriptLoaded ==
  /\ MacrotaskMayRun
  /\ BootAtScript > 0
  /\ bootApi' = 1
  /\ bootOrphan' = bootOrphan + bootApi
  /\ scriptLoaded' = TRUE
  /\ lastOp' = Op("scriptLoaded", "", "Suspended", {}, <<>>, 0, NoPre)
  /\ UNCHANGED <<nBoot, bootPoll, bootHistory>>
  /\ BootFrame

ScriptError_resolves ==
  /\ MacrotaskMayRun
  /\ BootAtScript > 0
  /\ bootApi' = 1
  /\ bootOrphan' = bootOrphan + bootApi
  /\ lastOp' = Op("scriptError", "", "Suspended", {}, <<>>, 0, NoPre)
  /\ UNCHANGED <<nBoot, bootPoll, scriptLoaded, bootHistory>>
  /\ BootFrame

\* script.onerror: reject(new Error("Failed to load Cast SDK")).
ScriptError ==
  /\ MacrotaskMayRun
  /\ BootAtScript > 0
  /\ nBoot' = nBoot - 1
  /\ bootHistory' = "failed"
  /\ lastOp' = Op("scriptError", "", "Rejected", {}, <<>>, 0, NoPre)
  /\ UNCHANGED <<bootApi, bootOrphan, bootPoll, scriptLoaded>>
  /\ BootFrame

\* The SDK calls window.__onGCastApiAvailable(isAvailable).  Only the
\* resolver installed last is reachable, and only true resolves it; the call
\* then enters waitForCastFramework with attempts = 0.
ApiAvailable(isAvailable) ==
  /\ MacrotaskMayRun
  /\ scriptLoaded
  /\ IF isAvailable /\ bootApi > 0
     THEN /\ bootApi' = 0
          /\ IF waitForCastFramework(0, frameworkLoaded) = "ready"
             THEN /\ nBoot' = nBoot - 1
                  /\ InitializeBody
                  /\ UNCHANGED <<nFast, frameworkLoaded, bootOrphan, bootPoll,
                                 scriptLoaded, bootHistory, projVars>>
             ELSE /\ bootPoll' = bootPoll (+) SetToBag({0})
                  /\ lastOp' = Op("apiAvailable", "true", "Suspended", {}, <<>>, 0, NoPre)
                  /\ UNCHANGED <<nBoot, bootOrphan, scriptLoaded, bootHistory>>
                  /\ BootFrame
     ELSE /\ lastOp' = Op("apiAvailable", IF isAvailable THEN "true" ELSE "false",
                          "Returned", {}, <<>>, 0, NoPre)
          /\ UNCHANGED <<nBoot, bootVars>>
          /\ BootFrame

\* The 100 ms timer of a call with k completed attempts fires: attempts++,
\* then the loop condition again.  The history keeps the attempts made.
PollTick(k) ==
  LET step == waitForCastFramework(k + 1, frameworkLoaded)
      left == bootPoll (-) SetToBag({k})
  IN /\ MacrotaskMayRun
     /\ BagIn(k, bootPoll)
     /\ CASE step = "delay" ->
               /\ bootPoll' = left (+) SetToBag({k + 1})
               /\ lastOp' = Op("poll", "", "Delay", {}, <<>>, k + 1, NoPre)
               /\ UNCHANGED <<nBoot, bootApi, bootOrphan, scriptLoaded, bootHistory>>
               /\ BootFrame
          [] step = "timeout" ->
               /\ bootPoll' = left
               /\ nBoot' = nBoot - 1
               /\ bootHistory' = "failed"
               /\ lastOp' = Op("poll", "", "Rejected", {}, <<>>, k + 1, NoPre)
               /\ UNCHANGED <<bootApi, bootOrphan, scriptLoaded>>
               /\ BootFrame
          [] OTHER ->
               /\ bootPoll' = left
               /\ nBoot' = nBoot - 1
               /\ InitializeBody
               /\ UNCHANGED <<nFast, frameworkLoaded, bootApi, bootOrphan,
                              scriptLoaded, bootHistory, projVars>>

\* --------------------------------------------------------------- commands
sendMessageRefresh_global(sess, ctx, cur) ==
  IF sess = 0
  THEN [session |-> cur, calls |-> {"getCurrentSession"}, fault |-> FALSE]
  ELSE [session |-> sess, calls |-> {}, fault |-> FALSE]

\* this.context.getCurrentSession() without the optional chaining
sendMessageRefresh_deref(sess, ctx, cur) ==
  IF sess = 0
  THEN IF ctx THEN [session |-> cur, calls |-> {"getCurrentSession"}, fault |-> FALSE]
              ELSE [session |-> 0, calls |-> {}, fault |-> TRUE]
  ELSE [session |-> sess, calls |-> {}, fault |-> FALSE]

\* the refresh without the test of this.session
sendMessageRefresh_always(sess, ctx, cur) ==
  IF ctx THEN [session |-> cur, calls |-> {"getCurrentSession"}, fault |-> FALSE]
         ELSE [session |-> 0, calls |-> {}, fault |-> FALSE]

\* if (!this.session) this.session = this.context?.getCurrentSession();
\* (undefined, from a null context, is as absent as null: 0; the optional
\* chaining never faults on a null context)
sendMessageRefresh(sess, ctx, cur) ==
  IF sess = 0
  THEN IF ctx THEN [session |-> cur, calls |-> {"getCurrentSession"}, fault |-> FALSE]
              ELSE [session |-> 0, calls |-> {}, fault |-> FALSE]
  ELSE [session |-> sess, calls |-> {}, fault |-> FALSE]

\* try { await ... } catch (error) { console.error(...); throw error; }
\* ok is the SDK's answer: the caller sees the same.
propagate(ok) == IF ok THEN "Resolved" ELSE "Rejected"

Answer(ok) == IF ok THEN "sdk resolves" ELSE "sdk rejects"

\* sendMessage(message); ok is the SDK's answer to session.sendMessage, which
\* only the context's current session can deliver.
SendMessage(ok) ==
  LET r == sendMessageRefresh(session, context, sdkSession)
  IN /\ session' = r.session
     /\ handleSrc' = IF session # 0 THEN handleSrc
                     ELSE IF r.session # 0 THEN "refresh+" ELSE "refresh-"
     /\ IF r.fault
        THEN /\ ok
             /\ lastOp' = Op("sendMessage", "", "TypeError", r.calls, <<>>, 0, Pre)
        ELSE IF r.session = 0
        THEN /\ ok
             /\ lastOp' = Op("sendMessage", "", "NoSession", r.calls, <<>>, 0, Pre)
        ELSE /\ ok => r.session = sdkSession
             /\ lastOp' = Op("sendMessage", Answer(ok), propagate(ok),
                             r.calls \cup {"session.sendMessage"}, <<>>, 0, Pre)
     /\ UNCHANGED <<emitterVars, context, initialized, nFast, nBoot, sdkVars,
                    initRuns, initialPubs, lastCastEvent, lifeLive, startedSeen,
                    everResolved, resolvedSinceDestroy, everDestroyed,
                    malformedOn, unsubbed, extVars>>

requestSessionAllowed_context == context

\* if (!this.initialized) throw ...
requestSessionAllowed == initialized

\* requestSession(); ok is the SDK's answer to context.requestSession().
RequestSession(ok) ==
  /\ IF ~requestSessionAllowed
     THEN ok /\ lastOp' = Op("requestSession", "", "NotInitialized", {}, <<>>, 0, NoPre)
     ELSE IF ~context
     THEN ok /\ lastOp' = Op("requestSession", "", "TypeError", {}, <<>>, 0, NoPre)
     ELSE lastOp' = Op("requestSession", Answer(ok), propagate(ok),
                       {"requestSession"}, <<>>, 0, NoPre)
  /\ UNCHANGED <<emitterVars, managerVars, sdkVars, initRuns, initialPubs,
                 lastCastEvent, handleSrc, lifeLive, startedSeen, everResolved,
                 resolvedSinceDestroy, everDestroyed, malformedOn, unsubbed, extVars>>

endSessionAllowed_initialized == initialized

\* if (!this.session) throw ...
endSessionAllowed == session # 0

\* endSession(); ok is the SDK's answer to context.endCurrentSession(true).
EndSession(ok) ==
  /\ IF ~endSessionAllowed
     THEN ok /\ lastOp' = Op("endSession", "", "NoActiveSession", {}, <<>>, 0, NoPre)
     ELSE IF ~context
     THEN ok /\ lastOp' = Op("endSession", "", "TypeError", {}, <<>>, 0, NoPre)
     ELSE lastOp' = Op("endSession", Answer(ok), propagate(ok),
                       {"endCurrentSession"}, <<>>, 0, NoPre)
  /\ UNCHANGED <<emitterVars, managerVars, sdkVars, initRuns, initialPubs,
                 lastCastEvent, handleSrc, lifeLive, startedSeen, everResolved,
                 resolvedSinceDestroy, everDestroyed, malformedOn, unsubbed, extVars>>

\* destroy(); the native listeners stay registered on the SDK objects.  The
\* history notes whether the dispatcher held a listener.
Destroy ==
  /\ listeners' = removeAllListeners(listeners, "")
  /\ session' = 0
  /\ context' = FALSE
  /\ initialized' = FALSE
  /\ handleSrc' = "destroy"
  /\ resolvedSinceDestroy' = FALSE
  /\ everDestroyed' = TRUE
  /\ lastOp' = Op("destroy", IF NumSubs > 0 THEN "listeners" ELSE "", "Returned",
                  {}, <<>>, 0, Pre)
  /\ UNCHANGED <<nFast, nBoot, sdkVars, initRuns, initialPubs, lastCastEvent,
                 lifeLive, startedSeen, everResolved, malformedOn, unsubbed, extVars>>

\* ------------------------------------------------------ native listeners
\* The CAST_STATE_CHANGED listener of initialize(): re-emit the SDK's value.
castStateHandler(v) ==
  LET r == emit(listeners, CAST_STATE_CHANGED)
  IN [pubs |-> <<Pub(CAST_STATE_CHANGED, v, 0, r)>>, threw |-> r.threw]

\* The SDK changes its connectivity state to v and fires the native event.
SdkCastStateChange(v, isolate) ==
  LET h == castStateHandler(v)
      n == Fired(ctxCast, h.threw, isolate)
  IN /\ MacrotaskMayRun
     /\ frameworkLoaded
     /\ v # sdkCastState
     /\ sdkCastState' = v
     /\ lastCastEvent' = IF n > 0 THEN v ELSE lastCastEvent
     /\ lastOp' = Op("nativeCastState", v,
                     IF n > 0 /\ h.threw THEN "Threw" ELSE "Returned", {},
                     IF n > 0 THEN Repeat(h.pubs[1], n) ELSE <<>>, n, NoPre)
     /\ Mirrors
     /\ UNCHANGED <<emitterVars, managerVars, frameworkLoaded, sdkSessionState,
                    sdkSession, sdkCount, ctxCast, ctxSess, msgListeners,
                    initRuns, initialPubs, handleSrc, lifeLive, startedSeen,
                    everResolved, resolvedSinceDestroy, everDestroyed,
                    malformedOn, unsubbed, emitterHist, bootVars>>

\* setupMessageListener(): one more message listener on the held session.
setupMessageListener(sess, msg) ==
  IF sess = 0 THEN msg ELSE [msg EXCEPT ![sess] = @ + 1]

refreshesHandle(s) == s \in LiveStates

clearsHandle_ending(s) == s \in {"SESSION_ENDED", "SESSION_ENDING"}

\* else if (sessionState === SessionState.SESSION_ENDED)
clearsHandle(s) == s = "SESSION_ENDED"

\* The SESSION_STATE_CHANGED listener of initialize(), run on the manager
\* fields st = [session, msg, pubs, threw, fired]; cur is what
\* context.getCurrentSession() returns.
sessionStateHandler(st, s, cur) ==
  LET r == emit(listeners, SESSION_STATE_CHANGED)
      done(sess, msg) ==
        [session |-> sess, msg |-> msg,
         pubs |-> Append(st.pubs, Pub(SESSION_STATE_CHANGED, s, sess, r)),
         threw |-> r.threw, fired |-> st.fired + 1]
  IN IF refreshesHandle(s)
     THEN IF ~context
          THEN \* this.context is null after destroy(): TypeError before emit
               [st EXCEPT !.threw = TRUE, !.fired = @ + 1]
          ELSE done(cur, setupMessageListener(cur, st.msg))
     ELSE IF clearsHandle(s) THEN done(0, st.msg)
     ELSE done(st.session, st.msg)

RECURSIVE RunSessionHandlers(_, _, _, _, _)
RunSessionHandlers(k, st, s, cur, isolate) ==
  IF k = 0 THEN st
  ELSE LET st1 == sessionStateHandler([st EXCEPT !.threw = FALSE], s, cur)
       IN IF st1.threw /\ ~isolate THEN st1
          ELSE RunSessionHandlers(k - 1, st1, s, cur, isolate)

\* The SDK fires the native lifecycle event for state s with cur as its
\* current session: every registered SESSION_STATE_CHANGED listener runs.
SdkDeliverSession(s, cur, isolate) ==
  LET st == RunSessionHandlers(ctxSess,
              [session |-> session, msg |-> msgListeners, pubs |-> <<>>,
               threw |-> FALSE, fired |-> 0], s, cur, isolate)
      delivered == ctxSess > 0
  IN /\ sdkSessionState' = s
     /\ sdkSession' = cur
     /\ session' = st.session
     /\ msgListeners' = st.msg
     /\ lifeLive' = IF ~delivered THEN lifeLive
                    ELSE IF s \in LiveStates THEN TRUE
                    ELSE IF s \in {"SESSION_ENDED", "NO_SESSION"} THEN FALSE
                    ELSE lifeLive
     /\ startedSeen' = (startedSeen \/ (delivered /\ s \in LiveStates))
     /\ handleSrc' = IF ~delivered THEN handleSrc
                     ELSE IF s \in LiveStates
                     THEN (IF context THEN "event+" ELSE handleSrc)
                     ELSE IF s = "SESSION_ENDED" THEN "ended"
                     ELSE handleSrc
     /\ lastOp' = Op("nativeSessionState", s,
                     IF st.threw THEN "Threw" ELSE "Returned",
                     IF delivered /\ s \in LiveStates /\ context
                     THEN {"getCurrentSession", "addMessageListener"} ELSE {},
                     st.pubs, st.fired, Pre)
     /\ Mirrors
     /\ UNCHANGED <<emitterVars, context, initialized, nFast, nBoot,
                    frameworkLoaded, sdkCastState, ctxCast, ctxSess, initRuns,
                    initialPubs, lastCastEvent, everResolved,
                    resolvedSinceDestroy, everDestroyed, malformedOn, unsubbed,
                    emitterHist, bootVars>>

\* The SDK moves its session lifecycle to s and fires the native event; a
\* session that starts or is resumed here is a new session object.
SdkSessionChange(s, isolate) ==
  /\ MacrotaskMayRun
  /\ frameworkLoaded
  /\ s \in SdkNextSessionStates(sdkSessionState)
  /\ s \in LiveStates => sdkCount < MaxSessions
  /\ sdkCount' = IF s \in LiveStates THEN sdkCount + 1 ELSE sdkCount
  /\ SdkDeliverSession(s, IF s \in LiveStates THEN sdkCount + 1
                          ELSE IF s = "SESSION_ENDED" THEN 0 ELSE sdkSession,
                       isolate)

\* The SDK resumes the session it already has (after a lost connection, or
\* when it joins again the session initialize() found): SESSION_RESUMED with
\* the same session object.
SdkSessionResumed(isolate) ==
  /\ MacrotaskMayRun
  /\ frameworkLoaded
  /\ sdkSession # 0
  /\ sdkSessionState \in LiveStates
  /\ msgListeners[sdkSession] < MaxInstalled
  /\ UNCHANGED sdkCount
  /\ SdkDeliverSession("SESSION_RESUMED", sdkSession, isolate)

messageCallback_nocatch(p) ==
  LET r == emit(listeners, MESSAGE_RECEIVED)
  IN IF IsString(p) /\ ~JSONParse(p).ok
     THEN [pubs |-> <<>>, threw |-> TRUE]
     ELSE [pubs |-> <<Pub(MESSAGE_RECEIVED,
                          IF IsString(p) THEN JSONParse(p).value ELSE p, 0, r)>>,
           threw |-> r.threw]

\* The listener setupMessageListener() adds: parse a string payload and emit
\* MESSAGE_RECEIVED; the try/catch around both logs whatever is thrown.
messageCallback(p) ==
  LET r == emit(listeners, MESSAGE_RECEIVED)
  IN IF IsString(p) /\ ~JSONParse(p).ok
     THEN [pubs |-> <<>>, threw |-> FALSE]
     ELSE [pubs |-> <<Pub(MESSAGE_RECEIVED,
                          IF IsString(p) THEN JSONParse(p).value ELSE p, 0, r)>>,
           threw |-> FALSE]

RECURSIVE Concat(_, _)
Concat(ps, n) == IF n = 0 THEN <<>> ELSE ps \o Concat(ps, n - 1)

\* The receiver sends p on the namespace of the SDK's current session.
SdkMessage(p) ==
  LET h == messageCallback(p)
      n == msgListeners[sdkSession]
  IN /\ MacrotaskMayRun
     /\ sdkSession # 0
     /\ n > 0
     /\ malformedOn' = IF IsString(p) /\ ~JSONParse(p).ok
                       THEN malformedOn \cup {sdkSession} ELSE malformedOn
     /\ lastOp' = Op("nativeMessage", p, IF h.threw THEN "Threw" ELSE "Returned",
                     {}, Concat(h.pubs, n), n, NoPre)
     /\ Mirrors
     /\ UNCHANGED <<emitterVars, managerVars, sdkVars, initRuns, initialPubs,
                    lastCastEvent, handleSrc, lifeLive, startedSeen,
                    everResolved, resolvedSinceDestroy, everDestroyed, unsubbed,
                    emitterHist, bootVars>>

\* Subscriptions to the events in E, initialize() and destroy(): part of
\* every scenario.
Lifecycle(E) ==
  \/ \E e \in E, l \in Listeners : On(e, l)
  \/ \E e \in E, l \in Listeners : Off(e, l)
  \/ InitializeCall
  \/ InitializeResumeFast
  \/ SdkLoad
  \/ InitializeResumeBoot
  \/ InitializeBootFail
  \/ Destroy

\* Sessions and commands, with listeners for the connectivity event (the
\* one initialize() publishes).
Next ==
  \/ Lifecycle({CAST_STATE_CHANGED})
  \/ \E ok \in BOOLEAN : SendMessage(ok)
  \/ \E ok \in BOOLEAN : RequestSession(ok)
  \/ \E ok \in BOOLEAN : EndSession(ok)
  \/ \E s \in SessionStates, isolate \in BOOLEAN : SdkSessionChange(s, isolate)

Spec == Init /\ [][Next]_vars

\* Connectivity events and their listeners.
NextConnectivity ==
  \/ Lifecycle({CAST_STATE_CHANGED})
  \/ \E v \in CastStates, isolate \in BOOLEAN : SdkCastStateChange(v, isolate)

SpecConnectivity == Init /\ [][NextConnectivity]_vars

\* Sessions and the messages received on them, with listeners for the
\* message event.
NextMessages ==
  \/ Lifecycle({MESSAGE_RECEIVED})
  \/ \E s \in SessionStates, isolate \in BOOLEAN : SdkSessionChange(s, isolate)
  \/ \E p \in RawMessages : SdkMessage(p)

SpecMessages == Init /\ [][NextMessages]_vars

\* The same, with an SDK that also resumes the session it has.
NextResumed ==
  \/ NextMessages
  \/ \E isolate \in BOOLEAN : SdkSessionResumed(isolate)

SpecResumed == Init /\ [][NextResumed]_vars

\* initialize() with the bootstrap sequence step by step.
NextBootstrap ==
  \/ InitializeCall
  \/ InitializeResumeFast
  \/ SdkLoad
  \/ ScriptLoaded
  \/ ScriptError
  \/ \E isAvailable \in BOOLEAN : ApiAvailable(isAvailable)
  \/ \E k \in 0..MaxAttempts - 1 : PollTick(k)

SpecBootstrap == Init /\ [][NextBootstrap]_vars

\* The same with the scheduling a browser gives: a pending microtask runs, a
\* loaded script fires onload, a started timer fires, and the SDK goes on
\* calling window.__onGCastApiAvailable(true) once a sender script has loaded.
BootstrapFairness ==
  /\ WF_vars(InitializeResumeFast)
  /\ WF_vars(ScriptLoaded)
  /\ WF_vars(ApiAvailable(TRUE))
  /\ \A k \in 0..MaxAttempts - 1 : WF_vars(PollTick(k))

SpecBootstrapFair == SpecBootstrap /\ BootstrapFairness

\* ------------------------------------------------------ a bare EventEmitter
\* The dispatcher on its own: on, off, emit and removeAllListeners called in
\* any order, with the history of who unsubscribed.
EmitterFrame ==
  UNCHANGED <<managerVars, sdkVars, initRuns, initialPubs, lastCastEvent,
              handleSrc, lifeLive, startedSeen, everResolved,
              resolvedSinceDestroy, everDestroyed, malformedOn, bootVars,
              projVars>>

EmitterOn(e, l) ==
  /\ InSeq(l, listeners[e]) \/ NumSubs < MaxRegistered
  /\ listeners' = on(listeners, e, l)
  /\ unsubbed' = [unsubbed EXCEPT ![e] = @ \ {l}]
  /\ dupSubs' = [dupSubs EXCEPT ![e] = IF InSeq(l, listeners[e])
                                       THEN @ \cup {l} ELSE @ \ {l}]
  /\ lastOp' = Op("on", e, "Returned", {}, <<>>, 0, NoPre)
  /\ EmitterFrame

EmitterOff(e, l) ==
  /\ listeners' = off(listeners, e, l)
  /\ unsubbed' = IF InSeq(l, listeners[e])
                 THEN [unsubbed EXCEPT ![e] = @ \cup {l}] ELSE unsubbed
  /\ UNCHANGED dupSubs
  /\ lastOp' = Op("off", e, "Returned", {}, <<>>, 0, NoPre)
  /\ EmitterFrame

EmitterEmit(e) ==
  LET r == emit(listeners, e)
  IN /\ lastOp' = Op("emit", e, IF r.threw THEN "Threw" ELSE "Returned", {},
                     <<Pub(e, "data", 0, r)>>, 0, NoPre)
     /\ UNCHANGED <<listeners, unsubbed, dupSubs>>
     /\ EmitterFrame

EmitterRemoveAll(e) ==
  /\ listeners' = removeAllListeners(listeners, e)
  /\ lastOp' = Op("removeAllListeners", e, "Returned", {}, <<>>, 0, NoPre)
  /\ dupSubs' = [x \in CastEventType |->
                   IF e \in {x, ""} THEN dupSubs[x] \cap unsubbed[x]
                   ELSE dupSubs[x]]
  /\ UNCHANGED unsubbed
  /\ EmitterFrame

NextEmitter ==
  \/ \E e \in CastEventType, l \in Listeners : EmitterOn(e, l)
  \/ \E e \in CastEventType, l \in Listeners : EmitterOff(e, l)
  \/ \E e \in CastEventType : EmitterEmit(e)
  \/ \E e \in CastEventType \cup {""} : EmitterRemoveAll(e)

SpecEmitter == Init /\ [][NextEmitter]_vars

\* ---------------------------------------------------------------- accessors
castState_inferred ==
  IF ~context THEN "null"
  ELSE IF session # 0 THEN "CONNECTED" ELSE "NOT_CONNECTED"

\* get castState(): null without a context, else context.getCastState()
castState == IF ~context THEN "null" ELSE sdkCastState

\* get isConnected(): !!this.session
isConnected == session # 0

\* get isInitialized()
isInitialized == initialized

Malformed(p) == IsString(p) /\ ~JSONParse(p).ok

\* ---------------------------------------------------------- the CastService
\* The manager's dispatcher after onCastStateChanged, onSessionStateChanged
\* and onMessageReceived registered the service's three listeners.
ServiceWiring(ls) ==
  on(on(on(ls, CAST_STATE_CHANGED, ServiceListener),
        SESSION_STATE_CHANGED, ServiceListener),
     MESSAGE_RECEIVED, ServiceListener)

\* The current manager becomes an orphan: the call awaiting it goes on
\* awaiting it.
Orphaned ==
  LET settled == svcAwait > 0 /\ nFast = 0 /\ nBoot = 0
  IN [fast     |-> orphans.fast + nFast,
      boot     |-> orphans.boot + nBoot,
      resolved |-> orphans.resolved + (IF settled /\ initialized THEN 1 ELSE 0),
      rejected |-> orphans.rejected + (IF settled /\ ~initialized THEN 1 ELSE 0),
      ready    |-> orphans.ready + (IF ctxCast > 0 THEN 1 ELSE 0)]

\* if (this.initialized) { console.warn(...); return; }
SvcInitializeIsNoop == svcInitialized

\* CastService.initialize(config) up to await this.castManager.initialize():
\* a new CastManager (autoInitialize: false) replaces this.castManager, the
\* three listeners are registered on it and its initialize() is called; the
\* new manager is not initialized, so that call suspends in loadCastFramework.
SvcInitialize ==
  IF SvcInitializeIsNoop
  THEN /\ lastOp' = Op("svcInitialize", "", "Resolved", {}, <<>>, 0, NoPre)
       /\ UNCHANGED <<emitterVars, managerVars, sdkVars, initRuns, initialPubs,
                      lastCastEvent, handleSrc, lifeLive, startedSeen,
                      everResolved, resolvedSinceDestroy, everDestroyed,
                      malformedOn, unsubbed, extVars>>
  ELSE /\ initRuns < MaxInitRuns
       /\ initRuns' = initRuns + 1
       /\ svcConstructed' = svcConstructed + 1
       /\ svcManager' = svcConstructed + 1
       /\ orphans' = Orphaned
       /\ ctxCast' = 0
       /\ ctxSess' = 0
       /\ context' = FALSE
       /\ session' = 0
       /\ initialized' = FALSE
       /\ listeners' = ServiceWiring([e \in CastEventType |-> <<>>])
       /\ svcWired' = [e \in CastEventType |-> svcWired[e] + 1]
       /\ IF frameworkLoaded
          THEN nFast' = 1 /\ nBoot' = 0
          ELSE nBoot' = 1 /\ nFast' = 0
       /\ svcAwait' = 1
       /\ lastOp' = Op("svcInitialize", "", "Suspended", {}, <<>>, 0, NoPre)
       /\ UNCHANGED <<frameworkLoaded, sdkCastState, sdkSessionState,
                      sdkSession, sdkCount, msgListeners, initialPubs,
                      lastCastEvent, handleSrc, lifeLive,
                      startedSeen, everResolved, resolvedSinceDestroy,
                      everDestroyed, malformedOn, unsubbed, emitterHist,
                      bootVars, svcInitialized, streams, svcDestroyed,
                      hookVars>>

\* The code of an orphan's initialize() after await this.loadCastFramework():
\* it registers its native listeners on the shared context and publishes the
\* initial connectivity event to the service's listener registered on it.
OrphanBody(stage) ==
  LET pub == Pub(CAST_STATE_CHANGED, sdkCastState, 0, [to |-> <<ServiceListener>>])
  IN /\ orphans' = [orphans EXCEPT ![stage] = @ - 1, !.resolved = @ + 1,
                                    !.ready = @ + 1]
     /\ msgListeners' = IF sdkSession # 0
                        THEN [msgListeners EXCEPT ![sdkSession] = @ + 1]
                        ELSE msgListeners
     /\ streams' = Deliver(streams, <<pub>>, {ServiceListener})
     /\ lastOp' = Op("orphanBody", "", "Resolved",
                     {"getInstance", "setOptions", "getCurrentSession",
                      "getCastState", "addEventListener"},
                     <<pub>>, 0, NoPre)
     /\ UNCHANGED <<emitterVars, managerVars, frameworkLoaded, sdkCastState,
                    sdkSessionState, sdkSession, sdkCount, ctxCast, ctxSess,
                    initRuns,
                    initialPubs, lastCastEvent, handleSrc, lifeLive,
                    startedSeen, everResolved, resolvedSinceDestroy,
                    everDestroyed, malformedOn, unsubbed, emitterHist, bootVars,
                    svcManager, svcInitialized, svcAwait, svcConstructed,
                    svcWired, svcDestroyed, hookVars>>

OrphanResumeFast ==
  /\ orphans.fast > 0
  /\ OrphanBody("fast")

\* An orphan's bootstrap ends: ok when window.cast.framework appeared.
OrphanResumeBoot(ok) ==
  /\ MacrotaskMayRun
  /\ orphans.boot > 0
  /\ IF ok
     THEN frameworkLoaded /\ OrphanBody("boot")
     ELSE /\ orphans' = [orphans EXCEPT !.boot = @ - 1, !.rejected = @ + 1]
          /\ lastOp' = Op("orphanBoot", "", "Rejected", {}, <<>>, 0, NoPre)
          /\ UNCHANGED <<emitterVars, managerVars, sdkVars, initRuns,
                         initialPubs, lastCastEvent, handleSrc, lifeLive,
                         startedSeen, everResolved, resolvedSinceDestroy,
                         everDestroyed, malformedOn, unsubbed, emitterHist,
                         bootVars, svcManager, svcInitialized, svcAwait,
                         streams, svcConstructed, svcWired, svcDestroyed,
                         hookVars>>

\* CastService.initialize(config) after the await, when the awaited
\* initialize() resolved: this.initialized = true, isInitializedSubject.next(true),
\* then the state of this.castManager (the current manager) is pushed.
SvcCompleted ==
  /\ svcInitialized' = TRUE
  /\ streams' = [streams EXCEPT !.isInitialized = TRUE,
                                !.castState = IF castState # "null"
                                              THEN castState ELSE @,
                                !.isConnected = isConnected]
  /\ lastOp' = Op("svcInitializeDone", "", "Resolved", {}, <<>>, 0, NoPre)

\* ... and when it rejected: the rejection leaves initialize(config).
SvcFailed ==
  /\ lastOp' = Op("svcInitializeDone", "", "Rejected", {}, <<>>, 0, NoPre)
  /\ UNCHANGED <<svcInitialized, streams>>

\* The call awaiting the current manager continues.
SvcContinue ==
  /\ svcAwait > 0 /\ nFast = 0 /\ nBoot = 0
  /\ svcAwait' = svcAwait - 1
  /\ IF initialized THEN SvcCompleted ELSE SvcFailed
  /\ UNCHANGED <<emitterVars, managerVars, sdkVars, initRuns, initialPubs,
                 lastCastEvent, handleSrc, lifeLive, startedSeen, everResolved,
                 resolvedSinceDestroy, everDestroyed, malformedOn, unsubbed,
                 emitterHist, bootVars, svcManager, orphans, svcConstructed,
                 svcWired, svcDestroyed, hookVars>>

\* A call awaiting an orphan continues.
SvcContinueOrphan(ok) ==
  /\ IF ok
     THEN /\ orphans.resolved > 0
          /\ orphans' = [orphans EXCEPT !.resolved = @ - 1]
          /\ SvcCompleted
     ELSE /\ orphans.rejected > 0
          /\ orphans' = [orphans EXCEPT !.rejected = @ - 1]
          /\ SvcFailed
  /\ UNCHANGED <<emitterVars, managerVars, sdkVars, initRuns, initialPubs,
                 lastCastEvent, handleSrc, lifeLive, startedSeen, everResolved,
                 resolvedSinceDestroy, everDestroyed, malformedOn, unsubbed,
                 emitterHist, bootVars, svcManager, svcAwait, svcConstructed,
                 svcWired, svcDestroyed, hookVars>>

\* if (!this.castManager) throw new Error("CastService not initialized. ...")
SvcGuardPasses == svcManager # 0

SvcRefused(name) ==
  /\ lastOp' = Op(name, "", "NotInitialized", {}, <<>>, 0, NoPre)
  /\ UNCHANGED <<emitterVars, managerVars, sdkVars, initRuns, initialPubs,
                 lastCastEvent, handleSrc, lifeLive, startedSeen, everResolved,
                 resolvedSinceDestroy, everDestroyed, malformedOn, unsubbed,
                 extVars>>

\* CastService.sendMessage(message): the guard, then
\* await this.castManager.sendMessage(message).
SvcSendMessage(ok) ==
  IF ~SvcGuardPasses THEN ok /\ SvcRefused("svcSendMessage") ELSE SendMessage(ok)

\* CastService.requestSession()
SvcRequestSession(ok) ==
  IF ~SvcGuardPasses THEN ok /\ SvcRefused("svcRequestSession") ELSE RequestSession(ok)

\* CastService.endSession()
SvcEndSession(ok) ==
  IF ~SvcGuardPasses THEN ok /\ SvcRefused("svcEndSession") ELSE EndSession(ok)

\* CastService.ngOnDestroy(): destroy() of this.castManager when there is
\* one, then complete() of the five subjects.  this.castManager and
\* this.initialized keep their values.
SvcNgOnDestroy ==
  /\ ~svcDestroyed
  /\ svcDestroyed' = TRUE
  /\ IF svcManager # 0
     THEN /\ listeners' = removeAllListeners(listeners, "")
          /\ session' = 0
          /\ context' = FALSE
          /\ initialized' = FALSE
          /\ handleSrc' = "destroy"
          /\ resolvedSinceDestroy' = FALSE
          /\ everDestroyed' = TRUE
     ELSE UNCHANGED <<listeners, session, context, initialized, handleSrc,
                      resolvedSinceDestroy, everDestroyed>>
  /\ lastOp' = Op("ngOnDestroy", "", "Returned",
                  IF svcManager # 0 THEN {"destroy"} ELSE {}, <<>>, 0, Pre)
  /\ UNCHANGED <<nFast, nBoot, sdkVars, initRuns, initialPubs, lastCastEvent,
                 lifeLive, startedSeen, everResolved, malformedOn, unsubbed,
                 emitterHist, bootVars, svcManager, svcInitialized, svcAwait,
                 orphans, streams, svcConstructed, svcWired, hookVars>>

\* The service scenario: initialize(config) calls, overlapping or one after
\* the other, and commands at any point until the host destroys the service;
\* the SDK changes its connectivity and session state at any point.
NextService ==
  \/ ~svcDestroyed /\ SvcInitialize
  \/ InitializeResumeFast
  \/ SdkLoad
  \/ InitializeResumeBoot
  \/ InitializeBootFail
  \/ OrphanResumeFast
  \/ \E ok \in BOOLEAN : OrphanResumeBoot(ok)
  \/ SvcContinue
  \/ \E ok \in BOOLEAN : SvcContinueOrphan(ok)
  \/ \E ok \in BOOLEAN : ~svcDestroyed /\ SvcSendMessage(ok)
  \/ \E ok \in BOOLEAN : ~svcDestroyed /\ SvcRequestSession(ok)
  \/ \E ok \in BOOLEAN : ~svcDestroyed /\ SvcEndSession(ok)
  \/ SvcNgOnDestroy
  \/ \E v \in CastStates, isolate \in BOOLEAN : SdkCastStateChange(v, isolate)
  \/ \E s \in SessionStates, isolate \in BOOLEAN : SdkSessionChange(s, isolate)

SpecService == Init /\ [][NextService]_vars

\* -------------------------------------------------------- useCastManager
\* The values of (receiverApplicationId, namespace) the component passes.
ConfigIds == {"appA", "appB"}

HookOptions == [config : ConfigIds, auto : BOOLEAN]

\* The three registrations of the k-th run of the effect.
HookSubscribe(ls, k) ==
  on(on(on(ls, CAST_STATE_CHANGED, HookListener(k)),
        SESSION_STATE_CHANGED, HookListener(k)),
     MESSAGE_RECEIVED, HookListener(k))

HookCleanup_two(ls, k) ==
  off(off(ls, CAST_STATE_CHANGED, HookListener(k)),
      SESSION_STATE_CHANGED, HookListener(k))

\* The cleanup the k-th run returned: offCastStateChanged,
\* offSessionStateChanged, offMessageReceived with the handlers of that run.
HookCleanup(ls, k) ==
  off(off(off(ls, CAST_STATE_CHANGED, HookListener(k)),
          SESSION_STATE_CHANGED, HookListener(k)),
      MESSAGE_RECEIVED, HookListener(k))

\* if (!castManagerRef.current) castManagerRef.current = new CastManager({
\* receiverApplicationId, namespace, autoInitialize: false }): the
\* configuration the manager of the ref was constructed with.
HookBoundConfig(h, opts) ==
  IF h.manager = 0 THEN opts.config ELSE h.config

\* manager.initialize() called by the hook for origin o, h being the hook
\* after what the caller did before: resolved at once when the manager is
\* initialized, else suspended in loadCastFramework.
HookManagerInitialize(h, o) ==
  IF InitializeIsNoop
  THEN /\ hook' = [h EXCEPT !.then.ok = @ + 1]
       /\ everResolved' = TRUE
       /\ resolvedSinceDestroy' = TRUE
       /\ UNCHANGED <<nFast, nBoot, initRuns>>
  ELSE /\ initRuns < MaxInitRuns
       /\ initRuns' = initRuns + 1
       /\ IF frameworkLoaded
          THEN /\ nFast' = nFast + 1
               /\ hook' = [h EXCEPT !.pend[o].fast = @ + 1]
               /\ UNCHANGED nBoot
          ELSE /\ nBoot' = nBoot + 1
               /\ hook' = [h EXCEPT !.pend[o].boot = @ + 1]
               /\ UNCHANGED nFast
       /\ UNCHANGED <<everResolved, resolvedSinceDestroy>>

\* const autoInit = options.autoInitialize ?? true;
\* if (autoInit && !manager.isInitialized)
HookAutoInitializes(opts) == opts.auto /\ ~isInitialized

\* One run of the effect with options opts on the dispatcher ls: the manager
\* is constructed when the ref is empty, the three handlers of this run are
\* registered, and initialize() is called when auto-initialization applies.
HookEffect(ls, opts) ==
  LET k == hook.runs + 1
      h == [hook EXCEPT !.manager = 1, !.config = HookBoundConfig(hook, opts),
                        !.phase = "active", !.runs = k, !.auto = opts.auto]
  IN /\ listeners' = HookSubscribe(ls, k)
     /\ lastOp' = Op(IF hook.phase = "idle" THEN "hookActivate"
                     ELSE "hookReactivate", opts.config, "Returned",
                     IF HookAutoInitializes(opts) THEN {"initialize"} ELSE {},
                     <<>>, 0, Pre)
     /\ IF HookAutoInitializes(opts)
        THEN HookManagerInitialize(h, "auto")
        ELSE /\ hook' = h
             /\ UNCHANGED <<nFast, nBoot, initRuns, everResolved,
                            resolvedSinceDestroy>>
     /\ UNCHANGED <<context, session, initialized, sdkVars, initialPubs,
                    lastCastEvent, handleSrc, lifeLive, startedSeen,
                    everDestroyed, malformedOn, unsubbed, emitterHist, bootVars,
                    svcVars, cells>>

\* The component mounts: the first run of the effect.
HookActivate(opts) ==
  /\ hook.phase = "idle"
  /\ HookEffect(listeners, opts)

\* The component renders with options opts and React runs the effect again
\* (a dependency changed, or the development double invocation): the cleanup
\* of the previous run, then the effect, with nothing in between.
HookReactivate(opts) ==
  /\ hook.phase = "active"
  /\ hook.runs < MaxActivations
  /\ HookEffect(HookCleanup(listeners, hook.runs), opts)

\* The component unmounts: the cleanup of the last run.  The manager is kept
\* as it is.
HookDeactivate ==
  /\ hook.phase = "active"
  /\ listeners' = HookCleanup(listeners, hook.runs)
  /\ hook' = [hook EXCEPT !.phase = "gone"]
  /\ lastOp' = Op("hookDeactivate", "", "Returned", {}, <<>>, 0, Pre)
  /\ UNCHANGED <<managerVars, sdkVars, initRuns, initialPubs, lastCastEvent,
                 handleSrc, lifeLive, startedSeen, everResolved,
                 resolvedSinceDestroy, everDestroyed, malformedOn, unsubbed,
                 emitterHist, bootVars, svcVars, cells>>

\* initialize() of the hook: if (!castManagerRef.current) return; then
\* await castManagerRef.current.initialize().  The component calls it from
\* an event handler: no continuation of the hook is waiting to run.
HookInitialize ==
  /\ hook.phase = "active"
  /\ HookMicrotasks = 0
  /\ IF hook.manager = 0
     THEN /\ lastOp' = Op("hookInitialize", "", "Resolved", {}, <<>>, 0, NoPre)
          /\ UNCHANGED <<hook, nFast, nBoot, initRuns, everResolved,
                         resolvedSinceDestroy>>
     ELSE /\ lastOp' = Op("hookInitialize", "",
                          IF InitializeIsNoop THEN "Resolved" ELSE "Suspended",
                          {"initialize"}, <<>>, 0, NoPre)
          /\ HookManagerInitialize(hook, "manual")
  /\ UNCHANGED <<emitterVars, context, session, initialized, sdkVars,
                 initialPubs, lastCastEvent, handleSrc, lifeLive, startedSeen,
                 everDestroyed, malformedOn, unsubbed, emitterHist, bootVars,
                 svcVars, cells>>

\* setIsInitialized(true); setCastState(manager.castState);
\* setIsConnected(manager.isConnected).  React drops the updates of a
\* component that is unmounted.
HookSync(c) ==
  IF hook.phase = "gone" THEN c
  ELSE [c EXCEPT !.isInitialized = TRUE, !.castState = castState,
                 !.isConnected = isConnected]

autoInitFailure_rethrown == "Rejected"

\* .catch((error) => { console.error("Failed to initialize CastManager:", error) })
autoInitFailure == "Logged"

HookContinueFrame ==
  UNCHANGED <<emitterVars, managerVars, sdkVars, initRuns, initialPubs,
              lastCastEvent, handleSrc, lifeLive, startedSeen, everResolved,
              resolvedSinceDestroy, everDestroyed, malformedOn, unsubbed,
              emitterHist, bootVars, svcVars>>

\* The continuation of a resolved initialize(): the .then of the effect, or
\* the lines after the await in initialize.
HookThen ==
  /\ hook.then.ok > 0
  /\ hook' = [hook EXCEPT !.then.ok = @ - 1]
  /\ cells' = HookSync(cells)
  /\ lastOp' = Op("hookInitializeDone", "", "Resolved", {}, <<>>, 0, NoPre)
  /\ HookContinueFrame

\* The continuation of a rejected initialize() of the effect.
HookCatch ==
  /\ hook.then.logged > 0
  /\ hook' = [hook EXCEPT !.then.logged = @ - 1]
  /\ lastOp' = Op("hookAutoInitializeDone", "", autoInitFailure, {}, <<>>, 0, NoPre)
  /\ UNCHANGED cells
  /\ HookContinueFrame

\* The rejection of the awaited call leaves the hook's initialize.
HookInitializeRejects ==
  /\ hook.then.rejected > 0
  /\ hook' = [hook EXCEPT !.then.rejected = @ - 1]
  /\ lastOp' = Op("hookInitializeDone", "", "Rejected", {}, <<>>, 0, NoPre)
  /\ UNCHANGED cells
  /\ HookContinueFrame

\* if (!castManagerRef.current) throw new Error("CastManager not initialized")
HookGuardPasses == hook.manager # 0

HookRefused(name) ==
  /\ lastOp' = Op(name, "", "NoManager", {}, <<>>, 0, NoPre)
  /\ UNCHANGED <<emitterVars, managerVars, sdkVars, initRuns, initialPubs,
                 lastCastEvent, handleSrc, lifeLive, startedSeen, everResolved,
                 resolvedSinceDestroy, everDestroyed, malformedOn, unsubbed,
                 extVars>>

\* sendMessage of the hook: the guard, then the manager's command.
HookSendMessage(ok) ==
  IF ~HookGuardPasses THEN ok /\ HookRefused("hookSendMessage") ELSE SendMessage(ok)

\* The hook scenario: a component mounts with the first configuration,
\* renders with changing options, calls initialize and sendMessage of the
\* hook and unmounts, while the SDK loads (or fails to) and moves through the
\* session lifecycle.  No listener throws here, so the SDK's handling of a
\* throwing listener makes no difference.
NextHook ==
  \/ \E a \in BOOLEAN : HookActivate([config |-> "appA", auto |-> a])
  \/ \E opts \in HookOptions : HookReactivate(opts)
  \/ HookDeactivate
  \/ HookInitialize
  \/ InitializeResumeFast
  \/ SdkLoad
  \/ InitializeResumeBoot
  \/ InitializeBootFail
  \/ HookThen
  \/ HookCatch
  \/ HookInitializeRejects
  \/ \E ok \in BOOLEAN : hook.phase # "gone" /\ HookSendMessage(ok)
  \/ \E s \in SessionStates : SdkSessionChange(s, TRUE)

SpecHook == Init /\ [][NextHook]_vars

\* ================================================================== claims

\* C1: on an initialized CastManager, after every delivered native
\* connectivity event the castState accessor returns the value of the most
\* recently delivered event.
C1_CastStateIsLastEvent ==
  (isInitialized /\ lastCastEvent # "none") => castState = lastCastEvent

C1_Witness ==
  /\ isInitialized
  /\ lastOp.op = "nativeCastState"
  /\ lastOp.fired > 0
  /\ lastCastEvent = "CONNECTING"

\* C2 as stated: the handle is held exactly when the last STARTED/RESUMED
\* event has not been followed by an ENDED or NO_SESSION event.
C2_HandleIffLiveEvent == isConnected <=> lifeLive

\* C2 amended: the handle is held exactly when the last step that determines
\* it (a STARTED/RESUMED event delivered to a manager that holds a context,
\* the capture in initialize(), the lazy refresh in sendMessage(), a
\* SESSION_ENDED event, destroy()) obtained a session from the context.
C2_HandleIffLastSource ==
  isConnected <=> handleSrc \in {"event+", "capture+", "refresh+"}

C2_Witness == isConnected /\ ~lifeLive /\ handleSrc = "capture+"

\* C3 as stated: sendMessage with no STARTED/RESUMED event delivered so far
\* fails with the no-session error and makes no SDK call.
C3_NoEventNoSdkCall ==
  (lastOp.op = "sendMessage" /\ ~startedSeen)
    => (lastOp.outcome = "NoSession" /\ lastOp.calls = {})

\* C3 amended: sendMessage called while no handle is held and the context, if
\* any, has no current session fails with the no-session error and calls no
\* send primitive; it queries the context for its current session exactly
\* when a context is held, and makes no other SDK call.
C3_NoSessionNoSend ==
  (lastOp.op = "sendMessage" /\ lastOp.pre.session = 0
     /\ (~context \/ sdkSession = 0))
    => /\ lastOp.outcome = "NoSession"
       /\ session = 0
       /\ lastOp.calls = (IF context THEN {"getCurrentSession"} ELSE {})

C3_Witness ==
  /\ lastOp.op = "sendMessage"
  /\ lastOp.pre.session = 0
  /\ context
  /\ sdkSession = 0
  /\ lastOp.outcome = "NoSession"

\* C4: requestSession called before any initialize() call has resolved fails
\* with the not-initialized error and does not call context.requestSession.
C4_RequestNeedsInitialize ==
  (lastOp.op = "requestSession" /\ ~everResolved)
    => (lastOp.outcome = "NotInitialized" /\ lastOp.calls = {})

C4_Witness ==
  /\ lastOp.op = "requestSession"
  /\ ~everResolved
  /\ context
  /\ lastOp.outcome = "NotInitialized"

\* C5: endSession without a held handle fails with the no-active-session
\* error and does not call endCurrentSession; with a handle it calls
\* endCurrentSession and the caller sees the SDK's rejection.
C5_EndSession ==
  lastOp.op = "endSession"
    => IF ~isConnected
       THEN lastOp.outcome = "NoActiveSession" /\ lastOp.calls = {}
       ELSE /\ lastOp.calls = {"endCurrentSession"}
            /\ lastOp.arg = "sdk rejects" => lastOp.outcome = "Rejected"
            /\ lastOp.arg = "sdk resolves" => lastOp.outcome = "Resolved"

C5_Witness ==
  /\ lastOp.op = "endSession"
  /\ isConnected
  /\ lastOp.arg = "sdk rejects"
  /\ lastOp.outcome = "Rejected"

\* C6: an initialize() call made after an earlier call resolved, with no
\* destroy() in between, resolves at once: no SDK call, no publication, no
\* listener registered, context and handle untouched.
C6_LaterInitializeIsNoop ==
  (lastOp.op = "initialize" /\ lastOp.pre.resolved)
    => /\ lastOp.outcome = "Resolved"
       /\ lastOp.calls = {}
       /\ lastOp.pubs = <<>>
       /\ context = lastOp.pre.context
       /\ session = lastOp.pre.session

C6_Witness ==
  /\ lastOp.op = "initialize"
  /\ lastOp.pre.resolved
  /\ lastOp.outcome = "Resolved"
  /\ isConnected

\* C7: whatever the interleaving of initialize() calls, each native listener
\* is registered on the context at most once and the initial connectivity
\* event is published at most once.
C7_InitializedAtMostOnce ==
  ~everDestroyed => (ctxCast <= 1 /\ ctxSess <= 1 /\ initialPubs <= 1)

\* C8: a listener that was subscribed to an event and whose last
\* subscribe/unsubscribe call for it was an unsubscribe is invoked by no
\* publication of that event.
C8_UnsubscribedNotInvoked ==
  \A i \in DOMAIN lastOp.pubs :
    \A j \in DOMAIN lastOp.pubs[i].to :
      lastOp.pubs[i].to[j] \notin unsubbed[lastOp.pubs[i].ev]

C8_Witness ==
  /\ lastOp.op = "emit"
  /\ unsubbed[lastOp.arg] = {"plain"}
  /\ lastOp.pubs[1].to = <<"faulty">>

\* C9: a malformed string payload is published to nobody and nothing is
\* thrown out of the message callback; a well-formed message that follows a
\* malformed one on the same session is published once per callback, with
\* its decoded value, to the registered listeners from the first one on.
C9_MalformedDropped ==
  lastOp.op = "nativeMessage"
    => /\ lastOp.outcome = "Returned"
       /\ Malformed(lastOp.arg) => lastOp.pubs = <<>>
       /\ (~Malformed(lastOp.arg) /\ sdkSession \in malformedOn)
            => /\ Len(lastOp.pubs) = lastOp.fired
               /\ \A i \in DOMAIN lastOp.pubs :
                    /\ lastOp.pubs[i].ev = MESSAGE_RECEIVED
                    /\ lastOp.pubs[i].val =
                         (IF lastOp.arg = "[object]" THEN "[object]"
                          ELSE "object{action:play}")
                    /\ listeners[MESSAGE_RECEIVED] # <<>>
                         => /\ lastOp.pubs[i].to # <<>>
                            /\ lastOp.pubs[i].to[1] = listeners[MESSAGE_RECEIVED][1]

C9_Witness ==
  /\ lastOp.op = "nativeMessage"
  /\ ~Malformed(lastOp.arg)
  /\ sdkSession \in malformedOn
  /\ lastOp.pubs # <<>>
  /\ lastOp.pubs[1].to = <<"plain">>

\* C10: once initialize() has resolved, a listener that is subscribed to the
\* connectivity or the lifecycle event receives, for every native callback of
\* that event, exactly one event with the callback's value, and receives no
\* such event without a callback.
C10_OnePublicationPerCallback ==
  LET after == IF lastOp.op \in {"initialize", "initializeBody"}
               THEN lastOp.pre.resolved ELSE resolvedSinceDestroy
      fires == CASE lastOp.op = "nativeCastState" -> CAST_STATE_CHANGED
                 [] lastOp.op = "nativeSessionState" -> SESSION_STATE_CHANGED
                 [] OTHER -> ""
      got(e, l) == SelectSeq(lastOp.pubs, LAMBDA p : p.ev = e /\ InSeq(l, p.to))
  IN (after /\ ~everDestroyed)
       => \A e \in {CAST_STATE_CHANGED, SESSION_STATE_CHANGED} :
            \A l \in Listeners :
              InSeq(l, listeners[e])
                => IF fires = e
                   THEN /\ Len(got(e, l)) = lastOp.fired
                        /\ \A i \in DOMAIN got(e, l) : got(e, l)[i].val = lastOp.arg
                   ELSE got(e, l) = <<>>

\* C11: sendMessage called right after destroy() fails with the no-session
\* error, whatever the state destroy() was called in; it neither faults on
\* the released context or session nor calls the SDK.
C11_SendAfterDestroy ==
  (lastOp.op = "sendMessage" /\ lastOp.pre.afterDestroy)
    => /\ lastOp.outcome = "NoSession"
       /\ lastOp.calls = {}
       /\ session = 0

C11_Witness ==
  /\ lastOp.op = "sendMessage"
  /\ lastOp.pre.afterDestroy
  /\ lastOp.outcome = "NoSession"
  /\ sdkSession # 0
  /\ everResolved

\* C12: right after destroy() returns, whatever the state it was called in,
\* the dispatcher holds no listener for any event name, no session handle is
\* held, the castState accessor returns null and isInitialized is false.
C12_DestroyReleases ==
  lastOp.op = "destroy"
    => /\ \A e \in CastEventType : listeners[e] = <<>>
       /\ ~isConnected
       /\ castState = "null"
       /\ ~isInitialized

C12_Witness ==
  /\ lastOp.op = "destroy"
  /\ lastOp.arg = "listeners"
  /\ lastOp.pre.session # 0
  /\ lastOp.pre.resolved
  /\ listeners[CAST_STATE_CHANGED] = <<>>

\* C13: destroy() is terminal: once it has been called, isInitialized is
\* false and the context and the session handle stay released in every later
\* state, also when initialize() is called or resumes afterwards.
C13_DestroyIsTerminal ==
  everDestroyed => (~isInitialized /\ ~context /\ session = 0)

\* C14: initialization is monotonic: a step that takes isInitialized from
\* true to false is a destroy(); no native event and no initialize,
\* sendMessage, requestSession or endSession call, successful or failing,
\* does it.
C14_InitializedMonotonic ==
  [][(isInitialized /\ ~isInitialized') => lastOp'.op = "destroy"]_vars

C14_Witness ==
  /\ isInitialized
  /\ lastOp.op = "initializeBoot"
  /\ lastOp.outcome = "Rejected"

\* C17: a publication invokes every listener registered for the event, in
\* registration order, also the listeners registered after one that throws.
C17_EveryListenerInvoked ==
  lastOp.op = "emit" => lastOp.pubs[1].to = listeners[lastOp.arg]

\* C18: a listener that was subscribed to an event again while registered
\* is registered once: a publication of the event invokes it exactly once
\* when it reaches it (no listener registered before it throws, see C17) and
\* never twice, and after a single unsubscribe it is not registered and not
\* invoked at all.
C18_DuplicateSubscribeIdempotent ==
  LET Cnt(l, q) == Cardinality({i \in DOMAIN q : q[i] = l})
      Reached(l, q) == \A i, j \in DOMAIN q : (q[i] = l /\ j < i) => ~Throws(q[j])
  IN \A e \in CastEventType :
       \A l \in dupSubs[e] :
         /\ Cnt(l, listeners[e]) = (IF l \in unsubbed[e] THEN 0 ELSE 1)
         /\ (lastOp.op = "emit" /\ lastOp.arg = e)
              => Cnt(l, lastOp.pubs[1].to) =
                   (IF l \notin unsubbed[e] /\ Reached(l, listeners[e]) THEN 1 ELSE 0)

C18_Witness ==
  /\ lastOp.op = "emit"
  /\ "plain" \in dupSubs[lastOp.arg]
  /\ "plain" \notin unsubbed[lastOp.arg]
  /\ lastOp.pubs[1].to = <<"plain">>

\* C15: a step in which the bootstrap sequence of an initialize() call fails
\* (script load error, or the framework still absent after the last poll)
\* rejects that call and changes nothing else: isInitialized keeps its value
\* (false unless another call has resolved), no native listener is
\* registered, no event is published, no SDK call is made.  An initialize()
\* call made after a failure, while the manager is not initialized and the
\* framework is absent, enters the bootstrap sequence again.
C15_BootstrapFailure ==
  [][/\ (lastOp'.op = "scriptError" \/ (lastOp'.op = "poll" /\ lastOp'.outcome # "Delay"))
        => /\ lastOp'.outcome = "Rejected"
           /\ isInitialized' = isInitialized
           /\ ~resolvedSinceDestroy => ~isInitialized'
           /\ context' = context /\ session' = session
           /\ ctxCast' = ctxCast /\ ctxSess' = ctxSess /\ msgListeners' = msgListeners
           /\ lastOp'.pubs = <<>>
           /\ lastOp'.calls = {}
     /\ (lastOp'.op = "initialize" /\ bootHistory # "none" /\ ~isInitialized
           /\ ~frameworkLoaded)
        => (lastOp'.outcome = "Suspended" /\ nBoot' = nBoot + 1)
    ]_vars

\* A call made after a failed bootstrap, alone, has succeeded.
C15_Witness ==
  /\ bootHistory = "retried"
  /\ lastOp.op = "initializeBody"
  /\ lastOp.outcome = "Resolved"
  /\ isInitialized
  /\ ctxCast = 1

\* C16: the polling step makes at most MaxAttempts delays: no call waits on
\* a timer after its last attempt; it goes on waiting only while the
\* framework object is absent, so it succeeds at the first check that finds
\* it; it fails exactly at the check after the last attempt, with the
\* framework object still absent.
C16_PollingBounded ==
  /\ \A k \in BagToSet(bootPoll) : k < MaxAttempts
  /\ lastOp.op = "poll"
       => /\ lastOp.fired \in 1..MaxAttempts
          /\ ~frameworkLoaded
          /\ lastOp.outcome = (IF lastOp.fired = MaxAttempts THEN "Rejected" ELSE "Delay")

C16_Witness ==
  /\ lastOp.op = "poll"
  /\ lastOp.fired = MaxAttempts
  /\ lastOp.outcome = "Rejected"
\* C19: on the CastService, sendMessage, requestSession and endSession fail
\* with the not-initialized error whenever they are called before
\* initialize(config) has completed: before any call, while a call is in
\* flight, and after a call has rejected.
C19_ServiceCommandsNeedInitialize ==
  (/\ lastOp.op \in {"svcSendMessage", "svcRequestSession", "svcEndSession",
                     "sendMessage", "requestSession", "endSession"}
   /\ ~svcInitialized)
    => lastOp.outcome = "NotInitialized"

\* C20: across any sequence of CastService.initialize(config) calls,
\* overlapping or made again after a rejected call, at most one CastManager is
\* constructed and wired, and each stream listener is registered at most once.
C20_ServiceInitializedOnce ==
  /\ svcConstructed <= 1
  /\ \A e \in CastEventType : svcWired[e] <= 1

\* C25: on every native session-lifecycle event delivered to the manager,
\* SESSION_STARTED and SESSION_RESUMED replace the held handle by the context's
\* current session and install a message listener on it, SESSION_ENDED clears
\* the handle, every other state leaves it unchanged, and the published event
\* carries the new state with the handle as held after the update.
C25_LifecycleHandler ==
  (lastOp.op = "nativeSessionState" /\ lastOp.fired > 0)
    => /\ lastOp.arg \in LiveStates
            => /\ session = sdkSession
               /\ "addMessageListener" \in lastOp.calls
               /\ msgListeners[sdkSession] > 0
       /\ lastOp.arg = "SESSION_ENDED" => session = 0
       /\ lastOp.arg \notin LiveStates \cup {"SESSION_ENDED"}
            => session = lastOp.pre.session
       /\ lastOp.pubs # <<>>
       /\ \A i \in DOMAIN lastOp.pubs :
            /\ lastOp.pubs[i].ev = SESSION_STATE_CHANGED
            /\ lastOp.pubs[i].val = lastOp.arg
            /\ lastOp.pubs[i].sess = session

C27_InitialEvent ==
  /\ (lastOp.op = "initializeBody" /\ lastOp.outcome = "Resolved")
       => /\ Len(lastOp.pubs) = 1
          /\ lastOp.pubs[1].ev = CAST_STATE_CHANGED
          /\ lastOp.pubs[1].val = sdkCastState
          /\ lastOp.pubs[1].to = listeners[CAST_STATE_CHANGED]
          /\ {"setOptions", "getCurrentSession"} \subseteq lastOp.calls
          /\ context /\ session = sdkSession
          /\ ~lastOp.pre.initialized
          /\ isInitialized
  /\ lastOp.op = "on" => lastOp.pubs = <<>>

\* C28: every initialize() call that has entered the global-callback step
\* leaves it and settles once the SDK has invoked the callback with true and
\* the polling has finished, also when two calls wait in that step at the same
\* time; an invocation with false lets no call proceed.
C28_CallbackStepSettles ==
  /\ (bootApi + bootOrphan > 0) ~> (bootApi + bootOrphan = 0)
  /\ [][(lastOp'.op = "apiAvailable" /\ lastOp'.arg = "false")
          => UNCHANGED <<nBoot, bootVars>>]_vars

\* C29: each native message delivered on the namespace of the current
\* session produces at most one message-received publication per subscribed
\* listener, whatever initialize calls and lifecycle events came before.
C29_OnePublicationPerMessage ==
  lastOp.op = "nativeMessage"
    => \A l \in Listeners :
         Cardinality({i \in DOMAIN lastOp.pubs : InSeq(l, lastOp.pubs[i].to)}) <= 1


\* C21: after ngOnDestroy the manager of the service has been destroyed
\* (right after the call it is not initialized and holds neither context nor
\* session), the five subjects are completed for good, and from then on no
\* step changes what the five synchronous getters return, whether a native
\* event or the completion of an initialize(config) still in flight.
C21_TeardownFreezesStreams ==
  /\ [](lastOp.op = "ngOnDestroy" =>
          svcDestroyed /\ ~initialized /\ ~context /\ session = 0)
  /\ [][svcDestroyed => svcDestroyed' /\ streams' = streams]_vars

\* C22: the manager of the hook holds, for each of the three events, exactly
\* the handler of the current run of the effect while the component is
\* mounted and none before the mount and after the unmount, however many
\* times the effect ran; the cleanup never destroys the manager and leaves
\* its isInitialized and its session as they were.
C22_CleanupUnsubscribes ==
  /\ \A e \in CastEventType :
       listeners[e] = IF hook.phase = "active"
                      THEN <<HookListener(hook.runs)>> ELSE <<>>
  /\ lastOp.op \in {"hookDeactivate", "hookReactivate"} =>
       /\ initialized = lastOp.pre.initialized
       /\ session = lastOp.pre.session
       /\ ~everDestroyed

C22_Witness ==
  /\ lastOp.op = "hookDeactivate"
  /\ hook.phase = "gone"
  /\ hook.runs = MaxActivations
  /\ initialized
  /\ NumSubs = 0

\* C23: after every run of the effect the hook uses a manager constructed
\* with the configuration (receiverApplicationId, namespace) of that run: the
\* one constructed at the mount while the configuration is the same, one
\* bound to the new configuration once it changed.
C23_ManagerFollowsConfig ==
  lastOp.op \in {"hookActivate", "hookReactivate"} =>
    hook.manager # 0 /\ hook.config = lastOp.arg

\* C24: a run of the effect that is not told to skip auto-initialization
\* calls initialize() on a manager that is not initialized; when that call
\* rejects the hook only logs it, nothing is thrown to anyone and the
\* isInitialized cell stays as it was; the cell turns true only in the
\* continuation of an initialize() call that resolved.
C24_AutoInitialize ==
  [][/\ (lastOp'.op \in {"hookActivate", "hookReactivate"}
           /\ hook'.auto /\ ~initialized) =>
          /\ "initialize" \in lastOp'.calls
          /\ nFast' + nBoot' = nFast + nBoot + 1
     /\ lastOp'.op = "hookAutoInitializeDone" =>
          lastOp'.outcome = "Logged" /\ cells' = cells
     /\ (cells'.isInitialized /\ ~cells.isInitialized) =>
          /\ lastOp'.op = "hookInitializeDone"
          /\ lastOp'.outcome = "Resolved"
          /\ everResolved]_vars

C24_Witness ==
  /\ lastOp.op = "hookAutoInitializeDone"
  /\ hook.auto
  /\ ~initialized
  /\ ~cells.isInitialized
  /\ HookMicrotasks = 0

\* C30: whenever no continuation is waiting to run and no initialize() is in
\* flight, the isConnected a projection shows equals the isConnected of its
\* manager: the isConnected cell of a mounted hook, and the value of the
\* isConnected subject of a CastService that has a manager and was not
\* destroyed.
C30_MirrorsConnected ==
  (nFast = 0 /\ nBoot = 0 /\ SvcMicrotasks = 0 /\ HookMicrotasks = 0) =>
    /\ hook.phase = "active" => cells.isConnected = isConnected
    /\ (svcManager # 0 /\ ~svcDestroyed) => streams.isConnected = isConnected

\* C31: when the SDK fires a connectivity or lifecycle event at the native
\* listeners of a manager whose context destroy() released, every listener
\* that runs reaches its emit (none faults on the released context), the
\* event is published only to listeners the dispatcher holds now, none of
\* them registered before destroy(), and the session handle stays absent.
C31_NativeCallbackAfterDestroy ==
  (/\ lastOp.op \in {"nativeCastState", "nativeSessionState"}
   /\ lastOp.fired > 0
   /\ everDestroyed
   /\ ~context) =>
    /\ Len(lastOp.pubs) = lastOp.fired
    /\ \A i \in DOMAIN lastOp.pubs :
         \A l \in Listeners :
           InSeq(l, lastOp.pubs[i].to) => InSeq(l, listeners[lastOp.pubs[i].ev])
    /\ session = 0
====
